---- MODULE Spec2Model ----
(***************************************************************************)
(* The frontier worker of distributed_frontera/worker/main.py: the Slot    *)
(* that owns the four CallLaterOnce wrappers, and the three duties         *)
(* consume_incoming, consume_scoring and new_batch, run by one reactor;     *)
(* and the two partitioners of distributed_frontera/worker/partitioner.py. *)
(*                                                                         *)
(* Time is counted in whole seconds.  The reactor works in iterations: an  *)
(* iteration takes the delayed calls that are due when it starts (due) and *)
(* runs them one after the other; a call armed while an iteration runs,    *)
(* even with delay 0, waits for the next iteration.                        *)
(***************************************************************************)
EXTENDS Integers, Sequences, FiniteSets, TLC

VARIABLES
    started,                      \* FrontierWorker.run() has been called
    call,                         \* CallLaterOnce._call is not None, per wrapper
    reactor,                      \* the reactor's delayed calls, per wrapper: seconds left
    due,                          \* wrappers whose call the running iteration still has to make
    is_finishing,                 \* Slot.is_finishing
    disable_new_batches,          \* Slot.disable_new_batches
    disable_scoring_consumption,  \* Slot.disable_scoring_consumption
    disable_incoming,             \* Slot.disable_incoming
    new_batch_delay,              \* Slot.new_batch_delay
    job_id,                       \* FrontierWorker.job_id
    stats,                        \* FrontierWorker.stats
    offsets,                      \* read position of each consumer: "ok" or "out_of_range"
    cycle,                        \* what the last executed callable did (observation)
    since_fault,                  \* seconds since an enabled duty was left unarmed, by an
                                  \* exception or by enable_new_batches()
    empty_cycles,                 \* consecutive new_batch cycles without an eligible partition
    partitioners,                 \* self.partitions of every partitioner constructed so far
    no_batches,                   \* the no_batches argument the worker was constructed with
    runs_disabled                 \* new_batch cycles since disable_new_batches() was called

vars == <<started, call, reactor, due, is_finishing, disable_new_batches,
          disable_scoring_consumption, disable_incoming, new_batch_delay,
          job_id, stats, offsets, cycle, since_fault, empty_cycles, partitioners,
          no_batches, runs_disabled>>

slotVars == <<is_finishing, disable_scoring_consumption, disable_incoming, new_batch_delay,
              no_batches>>

----------------------------------------------------------------------------
(* Bounds and program constants *)

\* the watchdog period of Slot.schedule, seconds
WatchdogInterval == 5

\* largest NEW_BATCH_DELAY setting explored, seconds
MaxDelay == 6

Duties == {"new_batch", "consumption", "scheduling", "scoring_consumption"}

Workers == {"new_batch", "consumption", "scoring_consumption"}

----------------------------------------------------------------------------
(* utils.CallLaterOnce and the reactor *)

Slot0 == [call |-> [d \in Duties |-> FALSE], reactor |-> [d \in Duties |-> << >>]]

\* a wrapper that queues every request
CallLaterOnceQueues(s, d, delay) ==
    [call |-> [s.call EXCEPT ![d] = TRUE],
     reactor |-> [s.reactor EXCEPT ![d] = Append(@, delay)]]

\* CallLaterOnce.schedule(delay): ignored while a call is pending
CallLaterOnceSchedule(s, d, delay) ==
    IF s.call[d]
    THEN s
    ELSE [call |-> [s.call EXCEPT ![d] = TRUE],
          reactor |-> [s.reactor EXCEPT ![d] = Append(@, delay)]]

\* CallLaterOnce.__call__: the pending mark is cleared, then the function runs
CallLaterOnceCall(s, d) ==
    LET q == s.reactor[d]
        i == CHOOSE k \in 1..Len(q) : q[k] = 0 /\ \A j \in 1..(k - 1) : q[j] # 0
    IN [call |-> [s.call EXCEPT ![d] = FALSE],
        reactor |-> [s.reactor EXCEPT ![d] =
                        SubSeq(q, 1, i - 1) \o SubSeq(q, i + 1, Len(q))]]

HasDue(q) == \E k \in 1..Len(q) : q[k] = 0

----------------------------------------------------------------------------
(* Slot *)

\* a Slot whose step arms its own next run at startup only
SlotScheduleNoWatchdog(s, on_start) ==
    LET s1 == IF on_start /\ ~disable_new_batches
              THEN CallLaterOnceSchedule(s, "new_batch", 0) ELSE s
        s2 == IF ~is_finishing /\ ~disable_incoming
              THEN CallLaterOnceSchedule(s1, "consumption", 0) ELSE s1
        s3 == IF ~is_finishing /\ ~disable_new_batches
              THEN CallLaterOnceSchedule(s2, "new_batch", new_batch_delay) ELSE s2
        s4 == IF ~is_finishing /\ ~disable_scoring_consumption
              THEN CallLaterOnceSchedule(s3, "scoring_consumption", 0) ELSE s3
    IN IF on_start THEN CallLaterOnceSchedule(s4, "scheduling", WatchdogInterval) ELSE s4

\* a Slot whose step arms new_batch at startup only
SlotScheduleBatchOnce(s, on_start) ==
    LET s1 == IF on_start /\ ~disable_new_batches
              THEN CallLaterOnceSchedule(s, "new_batch", 0) ELSE s
        s2 == IF ~is_finishing /\ ~disable_incoming
              THEN CallLaterOnceSchedule(s1, "consumption", 0) ELSE s1
        s4 == IF ~is_finishing /\ ~disable_scoring_consumption
              THEN CallLaterOnceSchedule(s2, "scoring_consumption", 0) ELSE s2
    IN CallLaterOnceSchedule(s4, "scheduling", WatchdogInterval)

\* a Slot whose step arms consume_incoming at startup only
SlotScheduleIncomingOnce(s, on_start) ==
    LET s1 == IF on_start /\ ~disable_new_batches
              THEN CallLaterOnceSchedule(s, "new_batch", 0) ELSE s
        s2 == IF on_start /\ ~is_finishing /\ ~disable_incoming
              THEN CallLaterOnceSchedule(s1, "consumption", 0) ELSE s1
        s3 == IF ~is_finishing /\ ~disable_new_batches
              THEN CallLaterOnceSchedule(s2, "new_batch", new_batch_delay) ELSE s2
        s4 == IF ~is_finishing /\ ~disable_scoring_consumption
              THEN CallLaterOnceSchedule(s3, "scoring_consumption", 0) ELSE s3
    IN CallLaterOnceSchedule(s4, "scheduling", WatchdogInterval)

\* a Slot whose step does not look at is_finishing
SlotScheduleIgnoresFinishing(s, on_start) ==
    LET s1 == IF on_start /\ ~disable_new_batches
              THEN CallLaterOnceSchedule(s, "new_batch", 0) ELSE s
        s2 == IF ~disable_incoming
              THEN CallLaterOnceSchedule(s1, "consumption", 0) ELSE s1
        s3 == IF ~disable_new_batches
              THEN CallLaterOnceSchedule(s2, "new_batch", new_batch_delay) ELSE s2
        s4 == IF ~disable_scoring_consumption
              THEN CallLaterOnceSchedule(s3, "scoring_consumption", 0) ELSE s3
    IN CallLaterOnceSchedule(s4, "scheduling", WatchdogInterval)

\* a Slot whose step issues the delayed request for new_batch first
SlotScheduleDelayedFirst(s, on_start) ==
    LET s1 == IF ~is_finishing /\ ~disable_new_batches
              THEN CallLaterOnceSchedule(s, "new_batch", new_batch_delay) ELSE s
        s2 == IF on_start /\ ~disable_new_batches
              THEN CallLaterOnceSchedule(s1, "new_batch", 0) ELSE s1
        s3 == IF ~is_finishing /\ ~disable_incoming
              THEN CallLaterOnceSchedule(s2, "consumption", 0) ELSE s2
        s4 == IF ~is_finishing /\ ~disable_scoring_consumption
              THEN CallLaterOnceSchedule(s3, "scoring_consumption", 0) ELSE s3
    IN CallLaterOnceSchedule(s4, "scheduling", WatchdogInterval)

\* a Slot whose step arms new_batch whatever disable_new_batches says
SlotScheduleIgnoresDisable(s, on_start) ==
    LET s1 == IF on_start /\ ~disable_new_batches
              THEN CallLaterOnceSchedule(s, "new_batch", 0) ELSE s
        s2 == IF ~is_finishing /\ ~disable_incoming
              THEN CallLaterOnceSchedule(s1, "consumption", 0) ELSE s1
        s3 == IF ~is_finishing
              THEN CallLaterOnceSchedule(s2, "new_batch", new_batch_delay) ELSE s2
        s4 == IF ~is_finishing /\ ~disable_scoring_consumption
              THEN CallLaterOnceSchedule(s3, "scoring_consumption", 0) ELSE s3
    IN CallLaterOnceSchedule(s4, "scheduling", WatchdogInterval)

\* Slot.schedule(on_start)
SlotSchedule(s, on_start) ==
    LET s1 == IF on_start /\ ~disable_new_batches
              THEN CallLaterOnceSchedule(s, "new_batch", 0) ELSE s
        s2 == IF ~is_finishing /\ ~disable_incoming
              THEN CallLaterOnceSchedule(s1, "consumption", 0) ELSE s1
        s3 == IF ~is_finishing /\ ~disable_new_batches
              THEN CallLaterOnceSchedule(s2, "new_batch", new_batch_delay) ELSE s2
        s4 == IF ~is_finishing /\ ~disable_scoring_consumption
              THEN CallLaterOnceSchedule(s3, "scoring_consumption", 0) ELSE s3
    IN CallLaterOnceSchedule(s4, "scheduling", WatchdogInterval)

Enabled(d) ==
    /\ ~is_finishing
    /\ CASE d = "new_batch" -> ~disable_new_batches
         [] d = "consumption" -> ~disable_incoming
         [] d = "scoring_consumption" -> ~disable_scoring_consumption

----------------------------------------------------------------------------
(* Helpers *)

SeqsUpTo(S, n) == UNION {[1..k -> S] : k \in 0..n}

\* dict[k] = v
Put(f, k, v) == [x \in (DOMAIN f) \cup {k} |-> IF x = k THEN v ELSE f[x]]

EmptyDict == [x \in {} |-> 0]

----------------------------------------------------------------------------
(* Messages on the bus, as the codec decodes them *)

JobIds == {0, 1}

Malformed == [kind |-> "malformed", jid |-> 0]

\* messages of the incoming topic
InMsg ==
    {[kind |-> "add_seeds", jid |-> 0]}
    \cup {[kind |-> k, jid |-> j] : k \in {"page_crawled", "request_error"}, j \in JobIds}
    \cup {Malformed}

Fingerprints == {"f1", "f2"}

Scores == {1, 2}

BadScore == [kind |-> "malformed", fprint |-> "f1", value |-> 0]

\* messages of the scoring topic; value is the score or the new job id
ScMsg ==
    {[kind |-> "update_score", fprint |-> f, value |-> v] : f \in Fingerprints, v \in Scores}
    \cup {[kind |-> "new_job_id", fprint |-> "f1", value |-> j] : j \in JobIds}
    \cup {BadScore}

\* Decoder.decode raises KeyError/TypeError on a malformed message
DecodeFails(m) == m.kind = "malformed"

\* how a pull can end: all messages yielded, OffsetOutOfRangeError raised by the
\* consumer, or any other exception raised under the duty
PullEnds(c) ==
    IF offsets[c] = "out_of_range" THEN {"offset"} ELSE {"ok", "offset", "error"}

\* the pulls a consumer can yield out of the traffic of its topic: with its read
\* position out of range nothing is read
Pulls(c, traffic) ==
    {p \in [msgs : traffic \cup {<< >>}, end : PullEnds(c)] :
        offsets[c] = "out_of_range" => p.msgs = << >>}

\* the read position after a pull: an OffsetOutOfRangeError leaves it out of range
AfterPull(c, p) ==
    IF p.end = "offset" THEN [offsets EXCEPT ![c] = "out_of_range"] ELSE offsets

\* a handler that logs the error and leaves the read position where it is
SeekNowhere(off, c) == off

\* consumer.seek(0, 2): the read position moves to the tail of the log
SeekTail(off, c) == [off EXCEPT ![c] = "ok"]

----------------------------------------------------------------------------
(* FrontierWorker.consume_incoming *)

\* a loop body that checks the job id of crawled pages only
ForwardedErrorsUnchecked(m, jid) ==
    CASE m.kind = "add_seeds" -> TRUE
      [] m.kind = "page_crawled" -> m.jid = jid
      [] m.kind = "request_error" -> TRUE
      [] OTHER -> FALSE

\* whether the loop body hands message m to the backend
Forwarded(m, jid) ==
    CASE m.kind = "add_seeds" -> TRUE
      [] m.kind = "page_crawled" -> m.jid = jid
      [] m.kind = "request_error" -> m.jid = jid
      [] OTHER -> FALSE

\* a loop that a decoding error ends
RECURSIVE IncomingCallsUntilBad(_, _)
IncomingCallsUntilBad(msgs, jid) ==
    IF msgs = << >> THEN << >>
    ELSE LET m == Head(msgs)
         IN IF DecodeFails(m) THEN << >>
            ELSE IF Forwarded(m, jid)
            THEN <<[method |-> m.kind, msg |-> m]>> \o IncomingCallsUntilBad(Tail(msgs), jid)
            ELSE IncomingCallsUntilBad(Tail(msgs), jid)

\* the backend calls of the loop over the pulled messages, in order
RECURSIVE IncomingCalls(_, _)
IncomingCalls(msgs, jid) ==
    IF msgs = << >> THEN << >>
    ELSE LET m == Head(msgs)
             rest == IncomingCalls(Tail(msgs), jid)
         IN IF DecodeFails(m) THEN rest
            ELSE IF Forwarded(m, jid) THEN <<[method |-> m.kind, msg |-> m]>> \o rest
            ELSE rest

\* consumed += 1 in the finally clause of every loop turn
Consumed(msgs) == Len(msgs)

IncomingStats(st, consumed) ==
    Put(Put(st, "last_consumed", consumed), "last_consumption_run", "asctime")

----------------------------------------------------------------------------
(* FrontierWorker.consume_scoring *)

\* a batch that keeps the first score seen for a fingerprint
RECURSIVE ScoreBatchKeepsFirst(_, _)
ScoreBatchKeepsFirst(msgs, batch) ==
    IF msgs = << >> THEN batch
    ELSE LET m == Head(msgs)
         IN IF ~DecodeFails(m) /\ m.kind = "update_score" /\ m.fprint \notin DOMAIN batch
            THEN ScoreBatchKeepsFirst(Tail(msgs), Put(batch, m.fprint, m.value))
            ELSE ScoreBatchKeepsFirst(Tail(msgs), batch)

\* batch[fprint] = (score, url, schedule) for every update_score message, in order
RECURSIVE ScoreBatch(_, _)
ScoreBatch(msgs, batch) ==
    IF msgs = << >> THEN batch
    ELSE LET m == Head(msgs)
         IN IF ~DecodeFails(m) /\ m.kind = "update_score"
            THEN ScoreBatch(Tail(msgs), Put(batch, m.fprint, m.value))
            ELSE ScoreBatch(Tail(msgs), batch)

\* self.job_id = msg[1] for every new_job_id message, in order
RECURSIVE JobIdAfter(_, _)
JobIdAfter(msgs, jid) ==
    IF msgs = << >> THEN jid
    ELSE LET m == Head(msgs)
         IN IF ~DecodeFails(m) /\ m.kind = "new_job_id"
            THEN JobIdAfter(Tail(msgs), m.value)
            ELSE JobIdAfter(Tail(msgs), jid)

\* self._backend.update_score(batch) is the last statement of the try block: it is
\* reached only when the loop ends without an exception
ScoringCalls(msgs, end) ==
    IF end = "ok" THEN <<ScoreBatch(msgs, EmptyDict)>> ELSE << >>

ScoringStats(st, consumed) ==
    Put(Put(st, "last_consumed_scoring", consumed), "last_consumption_run_scoring", "asctime")

----------------------------------------------------------------------------
(* FrontierWorker.new_batch *)

\* the MAX_NEXT_REQUESTS setting
max_next_requests == 1

NumPartitions == 2

Partitions == 0..(NumPartitions - 1)

\* what Fetcher.get() can return
LagMaps == [Partitions -> 0..(max_next_requests + 1)]

\* a gate that lets a partition at the ceiling through
EligibleAtCeiling(lags) == {p \in DOMAIN lags : lags[p] <= max_next_requests}

\* partitions whose lag is below the ceiling
EligiblePartitions(lags) == {p \in DOMAIN lags : lags[p] < max_next_requests}

Domains == {"a.com", "b.org"}

ParseError == "ParseError"

Unbound == "Unbound"

\* a request of the backend: whether the encoder accepts it, and the domain name
\* parse_domain_from_url_fast finds in its url (ParseError: it raises)
Requests ==
    {[encodes |-> FALSE, domain |-> ParseError]}
    \cup [encodes : {TRUE}, domain : Domains \cup {ParseError}]

BatchLoop0 == [name |-> Unbound, count |-> 0, published |-> << >>, raised |-> FALSE]

\* a loop turn that stamps the job id the worker was constructed with
BatchTurnInitialJobId(st, request, i, jid) ==
    IF ~request.encodes
    THEN [st EXCEPT !.count = @ + 1]
    ELSE LET name == IF request.domain = ParseError THEN st.name ELSE request.domain
         IN IF name = Unbound
            THEN [st EXCEPT !.count = @ + 1, !.raised = TRUE]
            ELSE [name |-> name,
                  count |-> st.count + 1,
                  published |-> Append(st.published,
                                       [key |-> name, request |-> i, jid |-> 0]),
                  raised |-> FALSE]

\* one turn of the loop over the requests; st.name is the local variable name
BatchTurn(st, request, i, jid) ==
    IF ~request.encodes
    THEN [st EXCEPT !.count = @ + 1]
    ELSE LET name == IF request.domain = ParseError THEN st.name ELSE request.domain
         IN IF name = Unbound
            THEN [st EXCEPT !.count = @ + 1, !.raised = TRUE]
            ELSE [name |-> name,
                  count |-> st.count + 1,
                  published |-> Append(st.published,
                                       [key |-> name, request |-> i, jid |-> jid]),
                  raised |-> FALSE]

\* the loop over backend.get_next_requests(...), left at the first exception
RECURSIVE BatchLoop(_, _, _, _)
BatchLoop(st, requests, i, jid) ==
    IF i > Len(requests) \/ st.raised THEN st
    ELSE BatchLoop(BatchTurn(st, requests[i], i, jid), requests, i + 1, jid)

MaxBatches == 2

\* consecutive empty cycles are counted up to MaxStreak
MaxStreak == 2

\* new_batch cycles under a set disable_new_batches flag are counted up to
\* MaxRunsDisabled
MaxRunsDisabled == 2

BatchStats(st, count) ==
    LET s1 == Put(st, "last_batch_size", count)
        s2 == IF "batches_after_start" \in DOMAIN s1 THEN s1
              ELSE Put(s1, "batches_after_start", 0)
        s3 == Put(s2, "batches_after_start", s2["batches_after_start"] + 1)
    IN Put(s3, "last_batch_generated", "asctime")

----------------------------------------------------------------------------
(* partitioner.py *)

MaxPartitionCount == 3

\* the partition lists a producer can hand over: the ids 0..n-1 of a topic
PartitionLists == {[k \in 1..n |-> k - 1] : n \in 1..MaxPartitionCount}

\* partitions[idx] of Python, for idx >= 0: the element, or an IndexError raised
Lookup(partitions, idx) ==
    IF idx < Len(partitions)
    THEN [raised |-> FALSE, partition |-> partitions[idx + 1]]
    ELSE [raised |-> TRUE, partition |-> -1]

\* a 32-bit word is the set of the positions of its one bits, 0 the lowest
Word == 0..31

\* n % size for n a word of more than 32 bits, from the highest bit down
RECURSIVE BitsMod(_, _, _, _)
BitsMod(bits, i, r, size) ==
    IF i < 0 THEN r
    ELSE BitsMod(bits, i - 1, (2 * r + (IF i \in bits THEN 1 ELSE 0)) % size, size)

\* value % size of Python for the signed 32-bit integer held in word w
SignedMod(w, size) ==
    LET u == BitsMod(w, 31, 0, size)
        p == BitsMod({32}, 32, 0, size)
    IN IF 31 \in w THEN (u + size - p) % size ELSE u

\* the bits of one byte
ByteBits(b) == {i \in 0..7 : (b \div (2 ^ i)) % 2 = 1}

Xor(v, w) == (v \ w) \cup (w \ v)

\* the reflected polynomial 0xEDB88320 of CRC-32
Crc32Poly == {31, 30, 29, 27, 26, 24, 23, 21, 20, 19, 15, 9, 8, 5}

ShiftRight(w) == {i - 1 : i \in w \ {0}}

RECURSIVE Crc32Shift(_, _)
Crc32Shift(w, n) ==
    IF n = 0 THEN w
    ELSE Crc32Shift(IF 0 \in w THEN Xor(ShiftRight(w), Crc32Poly) ELSE ShiftRight(w), n - 1)

RECURSIVE Crc32Bytes(_, _)
Crc32Bytes(w, bytes) ==
    IF bytes = << >> THEN w
    ELSE Crc32Bytes(Crc32Shift(Xor(w, ByteBits(Head(bytes))), 8), Tail(bytes))

\* zlib.crc32 of a byte string, as a word
crc32(bytes) == Word \ Crc32Bytes(Word, bytes)

\* unicode.encode('utf-8', 'ignore') for code points below 2048
RECURSIVE EncodeUtf8(_)
EncodeUtf8(chars) ==
    IF chars = << >> THEN << >>
    ELSE LET c == Head(chars)
         IN (IF c < 128 THEN <<c>> ELSE <<192 + (c \div 64), 128 + (c % 64)>>)
            \o EncodeUtf8(Tail(chars))

\* Crc32NamePartitioner.partition_by_hash; self is self.partitions
partition_by_hash(self, value, partitions) ==
    LET size == Len(self)
        idx == SignedMod(value, size)
    IN Lookup(partitions, idx)

\* Crc32NamePartitioner.partition; a key is a str (bytes) or a unicode string
Crc32Partition(self, key, partitions) ==
    LET value == IF key.type = "str" THEN crc32(key.chars)
                 ELSE crc32(EncodeUtf8(key.chars))
    IN partition_by_hash(self, value, partitions)

\* key[a:b] of Python
Slice(key, a, b) == SubSeq(key, a + 1, IF b < Len(key) THEN b ELSE Len(key))

\* binascii.unhexlify of an even number of hexadecimal digits
unhexlify(hex) == [k \in 1..(Len(hex) \div 2) |-> 16 * hex[2 * k - 1] + hex[2 * k]]

\* unpack("<I", digest)[0] % size: the four bytes, lowest first, as one unsigned
\* 32-bit integer, reduced from the highest byte down
UnpackMod(digest, size) ==
    LET r4 == digest[4] % size
        r3 == (256 * r4 + digest[3]) % size
        r2 == (256 * r3 + digest[2]) % size
    IN (256 * r2 + digest[1]) % size

\* FingerprintPartitioner.partition; self is self.partitions
FingerprintPartition(self, key, partitions) ==
    LET size == Len(self)
        digest == unhexlify(Slice(key, 0, 2) \o Slice(key, 5, 7)
                            \o Slice(key, 10, 12) \o Slice(key, 15, 17))
        idx == UnpackMod(digest, size)
    IN Lookup(partitions, idx)

----------------------------------------------------------------------------
(* The state after construction *)

Init ==
    /\ started = FALSE
    /\ call = Slot0.call
    /\ reactor = Slot0.reactor
    /\ due = {}
    /\ is_finishing = FALSE
    /\ disable_new_batches \in BOOLEAN
    /\ disable_scoring_consumption \in BOOLEAN
    /\ disable_incoming \in BOOLEAN
    /\ new_batch_delay \in {1, MaxDelay}
    /\ job_id = 0
    /\ stats = EmptyDict
    /\ offsets = [c \in {"incoming", "scoring"} |-> "ok"]
    /\ cycle = [op |-> "init"]
    /\ since_fault = [d \in Workers |-> -1]
    /\ empty_cycles = 0
    /\ partitioners = EmptyDict
    /\ no_batches = disable_new_batches
    /\ runs_disabled = 0

----------------------------------------------------------------------------
(* The reactor *)

Slot == [call |-> call, reactor |-> reactor]

\* a duty that raised while enabled is followed until it is armed again
SinceAfter(raised, newcall, newdisable) ==
    [d \in Workers |->
        IF newcall[d] \/ is_finishing \/ (d = "new_batch" /\ newdisable)
           \/ (d = "consumption" /\ disable_incoming)
           \/ (d = "scoring_consumption" /\ disable_scoring_consumption)
        THEN -1
        ELSE IF d \in raised THEN 0 ELSE since_fault[d]]

DueNow(r) == {d \in Duties : HasDue(r[d])}

\* FrontierWorker.run(): slot.schedule(on_start=True), then the reactor runs
Run ==
    /\ ~started
    /\ started' = TRUE
    /\ LET s == SlotSchedule(Slot, TRUE)
       IN /\ call' = s.call
          /\ reactor' = s.reactor
    /\ cycle' = [op |-> "run"]
    /\ UNCHANGED <<due, slotVars, partitioners, runs_disabled, disable_new_batches, job_id,
                   stats, offsets, since_fault, empty_cycles>>

\* one second passes between two iterations of the reactor
Tick ==
    /\ started
    /\ due = {}
    /\ reactor' = [d \in Duties |->
                     [k \in 1..Len(reactor[d]) |->
                        IF reactor[d][k] > 0 THEN reactor[d][k] - 1 ELSE 0]]
    /\ due' = DueNow(reactor')
    /\ since_fault' = [d \in Workers |->
                         IF since_fault[d] < 0 \/ since_fault[d] > WatchdogInterval
                         THEN since_fault[d] ELSE since_fault[d] + 1]
    /\ cycle' = [op |-> "idle"]
    /\ UNCHANGED <<started, call, slotVars, partitioners, runs_disabled,
                   disable_new_batches, job_id, stats, offsets, empty_cycles>>

\* the next iteration starts within the same second
Iterate ==
    /\ started
    /\ due = {}
    /\ DueNow(reactor) # {}
    /\ due' = DueNow(reactor)
    /\ cycle' = [op |-> "idle"]
    /\ UNCHANGED <<started, call, reactor, slotVars, partitioners, runs_disabled,
                   disable_new_batches, job_id, stats, offsets, since_fault, empty_cycles>>

\* the watchdog: Slot.schedule() called through Slot.scheduling
Reschedule ==
    /\ "scheduling" \in due
    /\ due' = due \ {"scheduling"}
    /\ LET s == SlotSchedule(CallLaterOnceCall(Slot, "scheduling"), FALSE)
       IN /\ call' = s.call
          /\ reactor' = s.reactor
          /\ since_fault' = SinceAfter({}, s.call, disable_new_batches)
    /\ cycle' = [op |-> "schedule",
                 revived |-> {d \in Workers : since_fault[d] >= 0 /\ since_fault'[d] < 0}]
    /\ UNCHANGED <<started, slotVars, partitioners, runs_disabled, disable_new_batches,
                   job_id, stats, offsets, empty_cycles>>

----------------------------------------------------------------------------
(* The duties *)

\* consume_incoming called through Slot.consumption
ConsumeIncoming(traffic) ==
    /\ "consumption" \in due
    /\ due' = due \ {"consumption"}
    /\ \E p \in Pulls("incoming", traffic) :
         LET raised == p.end = "error"
             consumed == Consumed(p.msgs)
             s0 == CallLaterOnceCall(Slot, "consumption")
             s == IF raised THEN s0 ELSE SlotSchedule(s0, FALSE)
             off == AfterPull("incoming", p)
         IN /\ call' = s.call
            /\ reactor' = s.reactor
            /\ offsets' = IF p.end = "offset" THEN SeekTail(off, "incoming") ELSE off
            /\ stats' = IF raised THEN stats ELSE IncomingStats(stats, consumed)
            /\ since_fault' = SinceAfter(IF raised THEN {"consumption"} ELSE {},
                                         s.call, disable_new_batches)
            /\ cycle' = [op |-> "consume_incoming", msgs |-> p.msgs, end |-> p.end,
                         calls |-> IncomingCalls(p.msgs, job_id),
                         returned |-> IF raised THEN -1 ELSE consumed,
                         raised |-> raised]
    /\ UNCHANGED <<started, slotVars, partitioners, runs_disabled, disable_new_batches,
                   job_id, empty_cycles>>

\* consume_scoring called through Slot.scoring_consumption
ConsumeScoring(traffic) ==
    /\ "scoring_consumption" \in due
    /\ due' = due \ {"scoring_consumption"}
    /\ \E p \in Pulls("scoring", traffic) :
         LET raised == p.end = "error"
             consumed == Consumed(p.msgs)
             s0 == CallLaterOnceCall(Slot, "scoring_consumption")
             s == IF raised THEN s0 ELSE SlotSchedule(s0, FALSE)
             off == AfterPull("scoring", p)
         IN /\ call' = s.call
            /\ reactor' = s.reactor
            /\ job_id' = JobIdAfter(p.msgs, job_id)
            /\ offsets' = IF p.end = "offset" THEN SeekTail(off, "scoring") ELSE off
            /\ stats' = IF raised THEN stats ELSE ScoringStats(stats, consumed)
            /\ since_fault' = SinceAfter(IF raised THEN {"scoring_consumption"} ELSE {},
                                         s.call, disable_new_batches)
            /\ cycle' = [op |-> "consume_scoring", msgs |-> p.msgs, end |-> p.end,
                         calls |-> ScoringCalls(p.msgs, p.end),
                         returned |-> IF raised THEN -1 ELSE consumed,
                         raised |-> raised]
    /\ UNCHANGED <<started, slotVars, partitioners, runs_disabled, disable_new_batches,
                   empty_cycles>>

\* a cycle that records its batch in the stats also when no partition is eligible
NewBatchCycleRecordsEmpty(lags, requests, end) ==
    LET partitions == EligiblePartitions(lags)
        loop == BatchLoop(BatchLoop0, requests, 1, job_id)
    IN IF end = "error"
       THEN [op |-> "new_batch", lags |-> lags, requests |-> << >>, end |-> end,
             queried |-> << >>, published |-> << >>, count |-> 0,
             returned |-> -1, raised |-> TRUE, stats |-> stats]
       ELSE IF partitions = {}
       THEN [op |-> "new_batch", lags |-> lags, requests |-> << >>, end |-> end,
             queried |-> << >>, published |-> << >>, count |-> 0,
             returned |-> 0, raised |-> FALSE, stats |-> BatchStats(stats, 0)]
       ELSE [op |-> "new_batch", lags |-> lags, requests |-> requests, end |-> end,
             queried |-> <<partitions>>, published |-> loop.published,
             count |-> loop.count,
             returned |-> IF loop.raised THEN -1 ELSE loop.count,
             raised |-> loop.raised,
             stats |-> IF loop.raised THEN stats ELSE BatchStats(stats, loop.count)]

\* what one new_batch cycle does with the lags and the requests the backend yields
NewBatchCycle(lags, requests, end) ==
    LET partitions == EligiblePartitions(lags)
        loop == BatchLoop(BatchLoop0, requests, 1, job_id)
    IN IF end = "error"
       THEN [op |-> "new_batch", lags |-> lags, requests |-> << >>, end |-> end,
             queried |-> << >>, published |-> << >>, count |-> 0,
             returned |-> -1, raised |-> TRUE, stats |-> stats]
       ELSE IF partitions = {}
       THEN [op |-> "new_batch", lags |-> lags, requests |-> << >>, end |-> end,
             queried |-> << >>, published |-> << >>, count |-> 0,
             returned |-> 0, raised |-> FALSE, stats |-> stats]
       ELSE [op |-> "new_batch", lags |-> lags, requests |-> requests, end |-> end,
             queried |-> <<partitions>>, published |-> loop.published,
             count |-> loop.count,
             returned |-> IF loop.raised THEN -1 ELSE loop.count,
             raised |-> loop.raised,
             stats |-> IF loop.raised THEN stats ELSE BatchStats(stats, loop.count)]

BatchesSoFar ==
    IF "batches_after_start" \in DOMAIN stats THEN stats["batches_after_start"] ELSE 0

\* new_batch called through Slot.new_batch; lagmaps: what the lag monitor can
\* report, yields: what the backend can return
NewBatch(lagmaps, yields) ==
    /\ "new_batch" \in due
    /\ due' = due \ {"new_batch"}
    /\ \E lags \in lagmaps, end \in {"ok", "error"} :
         \E requests \in IF end = "ok" /\ EligiblePartitions(lags) # {}
                         THEN yields \cup {<< >>} ELSE {<< >>} :
           LET c == NewBatchCycle(lags, requests, end)
               s == CallLaterOnceCall(Slot, "new_batch")
           IN /\ c.stats # stats => BatchesSoFar < MaxBatches
              /\ call' = s.call
              /\ reactor' = s.reactor
              /\ stats' = c.stats
              /\ since_fault' = SinceAfter(IF c.raised THEN {"new_batch"} ELSE {},
                                           s.call, disable_new_batches)
              /\ empty_cycles' = IF c.end = "error" THEN empty_cycles
                                  ELSE IF c.queried # << >> THEN 0
                                  ELSE IF empty_cycles < MaxStreak THEN empty_cycles + 1
                                  ELSE empty_cycles
              /\ cycle' = [x \in (DOMAIN c) \ {"stats"} |-> c[x]]
    /\ runs_disabled' = IF disable_new_batches /\ runs_disabled < MaxRunsDisabled
                        THEN runs_disabled + 1 ELSE runs_disabled
    /\ UNCHANGED <<started, slotVars, partitioners, disable_new_batches, job_id, offsets>>

----------------------------------------------------------------------------
(* The control surface *)

\* FrontierWorker.disable_new_batches()
DisableNewBatches ==
    /\ started
    /\ ~disable_new_batches
    /\ disable_new_batches' = TRUE
    /\ since_fault' = SinceAfter({}, call, TRUE)
    /\ runs_disabled' = 0
    /\ cycle' = [op |-> "disable_new_batches"]
    /\ UNCHANGED <<started, call, reactor, due, slotVars, partitioners, job_id, stats,
                   offsets, empty_cycles>>

\* FrontierWorker.enable_new_batches()
EnableNewBatches ==
    /\ started
    /\ disable_new_batches
    /\ disable_new_batches' = FALSE
    /\ since_fault' = [since_fault EXCEPT !["new_batch"] =
                          IF call["new_batch"] \/ is_finishing THEN -1 ELSE 0]
    /\ runs_disabled' = 0
    /\ cycle' = [op |-> "enable_new_batches"]
    /\ UNCHANGED <<started, call, reactor, due, slotVars, partitioners, job_id, stats,
                   offsets, empty_cycles>>

\* the owner of the Slot sets Slot.is_finishing: shutdown has begun
Finish ==
    /\ ~is_finishing
    /\ is_finishing' = TRUE
    /\ since_fault' = [d \in Workers |-> -1]
    /\ cycle' = [op |-> "finish"]
    /\ UNCHANGED <<started, call, reactor, due, disable_new_batches,
                   disable_scoring_consumption, disable_incoming, new_batch_delay, job_id,
                   stats, offsets, empty_cycles, partitioners, no_batches, runs_disabled>>

----------------------------------------------------------------------------
(* The partitioners *)

Instances == {1, 2}

\* DefaultPartitioner.__init__(partitions) of instance i
Construct(lists) ==
    \E i \in Instances \ DOMAIN partitioners, ps \in lists :
        /\ partitioners' = Put(partitioners, i, ps)
        /\ cycle' = [op |-> "construct"]
        /\ UNCHANGED <<started, call, reactor, due, slotVars, disable_new_batches, job_id,
                       stats, offsets, since_fault, empty_cycles, runs_disabled>>

\* Crc32NamePartitioner.partition(key, partitions) on instance i
Crc32NamePartitioner(keys, lists) ==
    \E i \in DOMAIN partitioners, key \in keys, ps \in lists :
        /\ cycle' = [op |-> "partition", class |-> "Crc32NamePartitioner", instance |-> i,
                     key |-> key, partitions |-> ps,
                     returned |-> Crc32Partition(partitioners[i], key, ps)]
        /\ UNCHANGED <<started, call, reactor, due, slotVars, partitioners, runs_disabled,
                       disable_new_batches, job_id, stats, offsets, since_fault,
                       empty_cycles>>

\* FingerprintPartitioner.partition(key, partitions) on instance i
FingerprintPartitioner(keys, lists) ==
    \E i \in DOMAIN partitioners, key \in keys, ps \in lists :
        /\ cycle' = [op |-> "partition", class |-> "FingerprintPartitioner", instance |-> i,
                     key |-> key, partitions |-> ps,
                     returned |-> FingerprintPartition(partitioners[i], key, ps)]
        /\ UNCHANGED <<started, call, reactor, due, slotVars, partitioners, runs_disabled,
                       disable_new_batches, job_id, stats, offsets, since_fault,
                       empty_cycles>>

----------------------------------------------------------------------------
(* Specifications *)

MaxPull == 3

MaxRequests == 3

\* a quiet bus and an empty frontier: every pull is empty
Quiet == {<< >>}

\* the outgoing topic all drained, or all at the ceiling
QuietLags == {[p \in Partitions |-> 0], [p \in Partitions |-> max_next_requests]}

IncomingTraffic == SeqsUpTo(InMsg, MaxPull)

ScoringTraffic == SeqsUpTo(ScMsg, MaxPull)

BackendYields == SeqsUpTo(Requests, MaxRequests)

\* the traffic of the specifications that run several duties
LightPull == 1

LightIncoming == SeqsUpTo(InMsg, LightPull)

LightScoring == SeqsUpTo(ScMsg, LightPull)

\* the scheduler with all its duties, on a quiet bus
Next ==
    \/ Run
    \/ Tick
    \/ Iterate
    \/ Reschedule
    \/ ConsumeIncoming(Quiet)
    \/ ConsumeScoring(Quiet)
    \/ NewBatch(QuietLags, Quiet)
    \/ DisableNewBatches
    \/ EnableNewBatches

Spec == Init /\ [][Next]_vars

\* the worker started with --no-batches --no-scoring, on a loaded incoming topic
InitIncoming ==
    Init /\ disable_new_batches /\ disable_scoring_consumption /\ ~disable_incoming
         /\ new_batch_delay = 1

NextIncoming ==
    \/ Run
    \/ Tick
    \/ Iterate
    \/ Reschedule
    \/ ConsumeIncoming(IncomingTraffic)

SpecIncoming == InitIncoming /\ [][NextIncoming]_vars

\* the worker started with --no-batches --no-incoming, on a loaded scoring topic
InitScoring ==
    Init /\ disable_new_batches /\ ~disable_scoring_consumption /\ disable_incoming
         /\ new_batch_delay = 1

NextScoring ==
    \/ Run
    \/ Tick
    \/ Iterate
    \/ Reschedule
    \/ ConsumeScoring(ScoringTraffic)

SpecScoring == InitScoring /\ [][NextScoring]_vars

\* the worker started with --no-incoming --no-scoring, on a loaded frontier
InitBatch ==
    Init /\ ~disable_new_batches /\ disable_scoring_consumption /\ disable_incoming

NextBatch ==
    \/ Run
    \/ Tick
    \/ Iterate
    \/ Reschedule
    \/ NewBatch(LagMaps, BackendYields)

SpecBatch == InitBatch /\ [][NextBatch]_vars

\* the worker started with --no-batches, both consumers on light traffic
InitConsumers ==
    Init /\ disable_new_batches /\ ~disable_scoring_consumption /\ ~disable_incoming
         /\ new_batch_delay = 1

NextConsumers ==
    \/ Run
    \/ Tick
    \/ Iterate
    \/ Reschedule
    \/ ConsumeIncoming(LightIncoming)
    \/ ConsumeScoring(LightScoring)

SpecConsumers == InitConsumers /\ [][NextConsumers]_vars

\* the worker started with --no-scoring, batch generation on and left so; the
\* reactor keeps making the calls that are due, and time keeps passing
InitFair == Init /\ ~disable_new_batches /\ disable_scoring_consumption

\* the running iteration makes one of the calls it still has to make
MakeCall ==
    \/ Reschedule
    \/ ConsumeIncoming(Quiet)
    \/ NewBatch(QuietLags, Quiet)

NextFair ==
    \/ Run
    \/ Tick
    \/ Iterate
    \/ MakeCall

FairSpec ==
    /\ InitFair
    /\ [][NextFair]_vars
    /\ WF_vars(Run)
    /\ SF_vars(Tick)
    /\ WF_vars(MakeCall)

\* the longest domain name explored
MaxNameLen == 2

\* the characters of the names: "a" and e with an acute accent
NameChars == {97, 233}

\* domain names, as str (bytes) and as unicode strings (code points)
NameKeys == [type : {"str", "unicode"}, chars : SeqsUpTo(NameChars, MaxNameLen)]

\* the length of a fingerprint, in hexadecimal digits
FingerprintLen == 17

\* fingerprints, one sequence of hexadecimal digits each
FingerprintKeys ==
    {[k \in 1..FingerprintLen |-> IF k \in S THEN 15 ELSE k % 16] : S \in SUBSET {1, 3, 17}}

\* a frontier with requests, and an outgoing topic with room
OpenLags == {[p \in Partitions |-> 0]}

\* crawled pages of either job on the incoming topic
JobIncoming == {<<[kind |-> "page_crawled", jid |-> j]>> : j \in JobIds}

\* the scoring topic announces a job, or two in one pull
JobScoring ==
    LET new_job_id(j) == [kind |-> "new_job_id", fprint |-> "f1", value |-> j]
    IN {<<new_job_id(j)>> : j \in JobIds} \cup {<<new_job_id(1), new_job_id(0)>>}

\* the backend returns one request, or two
JobYields ==
    LET request == [encodes |-> TRUE, domain |-> "a.com"]
    IN {<<request>>, <<request, request>>}

\* the worker started with all its duties, on light traffic
InitJob ==
    Init /\ ~disable_new_batches /\ ~disable_scoring_consumption /\ ~disable_incoming
         /\ new_batch_delay = 1

NextJob ==
    \/ Run
    \/ Tick
    \/ Iterate
    \/ Reschedule
    \/ ConsumeIncoming(JobIncoming)
    \/ ConsumeScoring(JobScoring)
    \/ NewBatch(OpenLags, JobYields)

SpecJob == InitJob /\ [][NextJob]_vars

\* the worker with any flags, on a quiet bus, shut down at any time
InitFinishing == Init /\ new_batch_delay = 1

NextFinishing ==
    \/ Run
    \/ Tick
    \/ Iterate
    \/ Reschedule
    \/ ConsumeIncoming(Quiet)
    \/ ConsumeScoring(Quiet)
    \/ NewBatch(QuietLags, Quiet)
    \/ Finish

SpecFinishing == InitFinishing /\ [][NextFinishing]_vars

\* two producers, each with its partitioner, on topics of up to MaxPartitionCount
\* partitions
InitPartitioner ==
    Init /\ disable_new_batches /\ disable_scoring_consumption /\ disable_incoming
         /\ new_batch_delay = 1

NextPartitioner ==
    \/ Construct(PartitionLists)
    \/ Crc32NamePartitioner(NameKeys, PartitionLists)
    \/ FingerprintPartitioner(FingerprintKeys, PartitionLists)

SpecPartitioner == InitPartitioner /\ [][NextPartitioner]_vars

----------------------------------------------------------------------------
(* Claims *)

\* the reactor's calls of wrapper d, one second later
Aged(q) == [k \in 1..Len(q) |-> IF q[k] > 0 THEN q[k] - 1 ELSE 0]

\* C1: every duty has at most one pending invocation, marked by its wrapper; a
\* step that does not make the pending call of a duty leaves that call alone
\* (its firing time only moves with the clock), whatever schedule requests the
\* step issues; and the mark is cleared when the call is made.
C1_AtMostOnePending ==
    /\ [](\A d \in Duties : Len(reactor[d]) <= 1 /\ (call[d] <=> Len(reactor[d]) = 1))
    /\ [][\A d \in Duties :
            call[d] /\ ~(d \in due /\ d \notin due')
                => /\ call'[d]
                   /\ reactor'[d] = IF cycle'.op = "idle" /\ reactor' # reactor
                                    THEN Aged(reactor[d]) ELSE reactor[d]]_vars
    /\ [][cycle'.op = "new_batch" => ~call'["new_batch"]]_vars

\* C1 witness: startup asked for new_batch at 0 and again at new_batch_delay, and
\* the one pending call is the first
C1_Witness ==
    /\ cycle.op = "run"
    /\ new_batch_delay > 0
    /\ reactor["new_batch"] = <<0>>
    /\ call["new_batch"]

\* C4: a duty that raised while enabled is armed again within one watchdog
\* interval, and the watchdog itself stays pending whatever the duties raise.
C4_WatchdogRevives ==
    /\ \A d \in Workers : since_fault[d] <= WatchdogInterval
    /\ started => call["scheduling"]

\* C4 witness: the watchdog has just armed again all three duties, each left
\* unarmed by an exception
C4_Witness == cycle.op = "schedule" /\ cycle.revived = Workers

\* C5: with batch generation on, new_batch runs again and again, however many
\* of its cycles in a row find no eligible partition.
C5_BatchesForever == []<>(cycle.op = "new_batch")

\* C5 witness: a cycle without eligible partition that follows another one
C5_Witness ==
    /\ cycle.op = "new_batch"
    /\ cycle.queried = << >>
    /\ cycle.returned = 0
    /\ empty_cycles = MaxStreak

\* C2: no page_crawled or request_error message whose job id differs from the
\* worker's reaches the backend, and every add_seeds message does.
C2_StaleNeverDispatched ==
    cycle.op = "consume_incoming" =>
        /\ \A i \in 1..Len(cycle.calls) :
              cycle.calls[i].msg.kind \in {"page_crawled", "request_error"}
                  => cycle.calls[i].msg.jid = job_id
        /\ Cardinality({i \in 1..Len(cycle.calls) : cycle.calls[i].method = "add_seeds"})
              = Cardinality({i \in 1..Len(cycle.msgs) : cycle.msgs[i].kind = "add_seeds"})

\* C2 witness: after a new_job_id, a cycle drops a request_error of the old job
C2_Witness ==
    /\ cycle.op = "consume_incoming"
    /\ job_id = 1
    /\ cycle.msgs = <<[kind |-> "request_error", jid |-> 0]>>
    /\ cycle.calls = << >>

\* C3: the backend is asked for exactly the partitions whose lag is strictly
\* below max_next_requests, and is not asked at all when there is none.
C3_EligibleExactly ==
    cycle.op = "new_batch" =>
        LET eligible == {p \in Partitions : cycle.lags[p] < max_next_requests}
        IN /\ Len(cycle.queried) <= 1
           /\ \A i \in 1..Len(cycle.queried) : cycle.queried[i] = eligible
           /\ eligible = {} => cycle.queried = << >>
           /\ eligible # {} /\ cycle.end = "ok" => Len(cycle.queried) = 1

\* C3 witness: partition 0 at the ceiling, partition 1 drained, the backend
\* asked without partition 0
C3_Witness ==
    /\ cycle.op = "new_batch"
    /\ cycle.lags[0] = max_next_requests
    /\ cycle.lags[1] = 0
    /\ Len(cycle.queried) = 1
    /\ 1 \in cycle.queried[1]
    /\ 0 \notin cycle.queried[1]

\* the update_score messages of a pull
Updates(msgs) == {i \in 1..Len(msgs) : msgs[i].kind = "update_score"}

\* C6: a scoring cycle whose pull completes calls update_score once, with the
\* fingerprints of this cycle's update_score messages and, for each, the value
\* of the last of them.
C6_LastWriteWins ==
    cycle.op = "consume_scoring" /\ cycle.end = "ok" =>
        /\ Len(cycle.calls) = 1
        /\ DOMAIN cycle.calls[1] = {cycle.msgs[i].fprint : i \in Updates(cycle.msgs)}
        /\ \A i \in Updates(cycle.msgs) :
              (\A j \in Updates(cycle.msgs) :
                  j > i => cycle.msgs[j].fprint # cycle.msgs[i].fprint)
                  => cycle.calls[1][cycle.msgs[i].fprint] = cycle.msgs[i].value

\* C6 witness: two scores for one fingerprint in one completed pull
C6_Witness ==
    /\ cycle.op = "consume_scoring"
    /\ cycle.end = "ok"
    /\ \E i, j \in Updates(cycle.msgs) :
          /\ i < j
          /\ cycle.msgs[i].fprint = cycle.msgs[j].fprint
          /\ cycle.msgs[i].value # cycle.msgs[j].value

\* C7: a scoring pull that raises OffsetOutOfRangeError after update_score
\* messages were consumed still applies their batch with one update_score call.
C7_PartialBatchApplied ==
    cycle.op = "consume_scoring" /\ cycle.end = "offset" /\ Updates(cycle.msgs) # {} =>
        /\ Len(cycle.calls) = 1
        /\ DOMAIN cycle.calls[1] = {cycle.msgs[i].fprint : i \in Updates(cycle.msgs)}

\* a message the incoming loop has to hand to the backend
C8_Current(m) ==
    \/ m.kind = "add_seeds"
    \/ m.kind \in {"page_crawled", "request_error"} /\ m.jid = job_id

\* C8: an incoming cycle counts every message it pulled, and the backend gets
\* the decodable messages of the current job, in the order of the pull.
C8_DecodeFailureSkipped ==
    cycle.op = "consume_incoming" /\ ~cycle.raised =>
        /\ cycle.returned = Len(cycle.msgs)
        /\ stats["last_consumed"] = Len(cycle.msgs)
        /\ [i \in 1..Len(cycle.calls) |-> cycle.calls[i].msg]
              = SelectSeq(cycle.msgs, C8_Current)
        /\ \A i \in 1..Len(cycle.calls) : cycle.calls[i].method = cycle.calls[i].msg.kind

\* C8 witness: three messages, the second malformed, the other two dispatched
C8_Witness ==
    /\ cycle.op = "consume_incoming"
    /\ cycle.end = "ok"
    /\ Len(cycle.msgs) = 3
    /\ cycle.msgs[2] = Malformed
    /\ cycle.returned = 3
    /\ Len(cycle.calls) = 2
    /\ cycle.calls[1].msg = cycle.msgs[1]
    /\ cycle.calls[2].msg = cycle.msgs[3]
    /\ cycle.msgs[1] # cycle.msgs[3]

\* C9: a consumer cycle whose pull raises OffsetOutOfRangeError raises nothing
\* itself, leaves the consumer at a readable position, records the count of the
\* messages consumed before the fault and the time, and has armed its duty
\* again; so every pull starts from a readable position.
C9_OffsetRecovery ==
    /\ \A c \in DOMAIN offsets : offsets[c] = "ok"
    /\ cycle.op = "consume_incoming" /\ cycle.end = "offset" =>
          /\ ~cycle.raised
          /\ cycle.returned = Len(cycle.msgs)
          /\ stats["last_consumed"] = Len(cycle.msgs)
          /\ "last_consumption_run" \in DOMAIN stats
          /\ call["consumption"]
    /\ cycle.op = "consume_scoring" /\ cycle.end = "offset" =>
          /\ ~cycle.raised
          /\ cycle.returned = Len(cycle.msgs)
          /\ stats["last_consumed_scoring"] = Len(cycle.msgs)
          /\ "last_consumption_run_scoring" \in DOMAIN stats
          /\ call["scoring_consumption"]

\* C9 witness: the incoming pull raised after one message, which was dispatched
C9_Witness ==
    /\ cycle.op = "consume_incoming"
    /\ cycle.end = "offset"
    /\ Len(cycle.msgs) = 1
    /\ Len(cycle.calls) = 1
    /\ stats["last_consumed"] = 1

\* C10: a new_batch cycle in which nothing but domain parsing fails processes
\* every request the backend returned and reaches its stats update.
C10_ParseFailureContained ==
    cycle.op = "new_batch" /\ cycle.end = "ok" =>
        /\ ~cycle.raised
        /\ cycle.count = Len(cycle.requests)

\* C11: a partitioner call returns a member of the partition list it was given,
\* and any other instance returns the same partition for that key and that list.
C11_PartitionerPure ==
    cycle.op = "partition" =>
        /\ ~cycle.returned.raised
        /\ \E k \in 1..Len(cycle.partitions) : cycle.partitions[k] = cycle.returned.partition
        /\ \A j \in DOMAIN partitioners :
              cycle.returned = IF cycle.class = "Crc32NamePartitioner"
                               THEN Crc32Partition(partitioners[j], cycle.key, cycle.partitions)
                               ELSE FingerprintPartition(partitioners[j], cycle.key,
                                                         cycle.partitions)

\* C12: the job id never decreases, and only a consume_scoring cycle that
\* handles a new_job_id message changes it.
C12_JobIdMonotonic ==
    [][/\ job_id' >= job_id
       /\ job_id' # job_id =>
             /\ cycle'.op = "consume_scoring"
             /\ \E i \in 1..Len(cycle'.msgs) : cycle'.msgs[i].kind = "new_job_id"]_vars

\* C13: a new_batch cycle that asks the backend returns, and records as
\* last_batch_size, the number of requests the backend returned, and publishes
\* no request whose encoding failed.
C13_AttemptsCounted ==
    cycle.op = "new_batch" /\ cycle.end = "ok" /\ cycle.queried # << >> =>
        /\ cycle.returned = Len(cycle.requests)
        /\ "last_batch_size" \in DOMAIN stats
        /\ stats["last_batch_size"] = Len(cycle.requests)
        /\ \A i \in 1..Len(cycle.published) :
              cycle.requests[cycle.published[i].request].encodes

\* the last callable was duty op, and it completed without raising
Completed(op) == cycle.op = op /\ ~cycle.raised

\* C14 as stated: right after any of the three duties completes normally, that
\* duty has a pending invocation.
C14_EveryDutyRearms ==
    /\ Completed("consume_incoming") => call["consumption"]
    /\ Completed("consume_scoring") => call["scoring_consumption"]
    /\ Completed("new_batch") => call["new_batch"]

\* C14: consume_incoming and consume_scoring end with the scheduling step, so
\* right after either completes normally it has a pending invocation, and so
\* has every other enabled duty; new_batch does not: right after a new_batch
\* cycle that duty has no pending invocation, and only the watchdog, which is
\* pending, or a consumer's completion arms it again.
C14_ConsumersRearm ==
    /\ Completed("consume_incoming") \/ Completed("consume_scoring") =>
          /\ cycle.op = "consume_incoming" => call["consumption"]
          /\ cycle.op = "consume_scoring" => call["scoring_consumption"]
          /\ \A d \in Workers : Enabled(d) => call[d]
          /\ call["scheduling"]
    /\ cycle.op = "new_batch" => ~call["new_batch"] /\ call["scheduling"]

\* C14 witness: new_batch, enabled, completed normally and is left unarmed
C14_Witness ==
    /\ Completed("new_batch")
    /\ cycle.returned = 0
    /\ ~disable_new_batches
    /\ ~call["new_batch"]
    /\ call["consumption"]

\* C15: every message a new_batch cycle publishes is keyed by the domain name
\* parsed from the url of the request it encodes.
C15_KeyOfOwnRequest ==
    cycle.op = "new_batch" =>
        \A i \in 1..Len(cycle.published) :
            cycle.published[i].key = cycle.requests[cycle.published[i].request].domain

\* the new_job_id messages of a pull
C16_NewJobIds(msgs) == {i \in 1..Len(msgs) : msgs[i].kind = "new_job_id"}

\* C16: after a scoring cycle the job id is that of the last new_job_id message
\* it handled, and nothing else changes the job id; every request a new_batch
\* cycle publishes carries the job id, and every page_crawled or request_error
\* message an incoming cycle hands to the backend carries it too.
C16_JobIdTakesEffect ==
    /\ [](/\ cycle.op = "consume_scoring" =>
               \A i \in C16_NewJobIds(cycle.msgs) :
                   (\A j \in C16_NewJobIds(cycle.msgs) : j <= i)
                       => job_id = cycle.msgs[i].value
          /\ cycle.op = "new_batch" =>
               \A i \in 1..Len(cycle.published) : cycle.published[i].jid = job_id
          /\ cycle.op = "consume_incoming" =>
               \A i \in 1..Len(cycle.msgs) :
                   cycle.msgs[i].kind \in {"page_crawled", "request_error"} =>
                       ((\E k \in 1..Len(cycle.calls) : cycle.calls[k].msg = cycle.msgs[i])
                           <=> cycle.msgs[i].jid = job_id))
    /\ [][job_id' # job_id =>
             cycle'.op = "consume_scoring" /\ C16_NewJobIds(cycle'.msgs) # {}]_vars

\* C16 witness: after a new_job_id(1), a new_batch cycle publishes two requests
\* stamped with job id 1
C16_Witness ==
    /\ cycle.op = "new_batch"
    /\ job_id = 1
    /\ Len(cycle.published) = 2
    /\ cycle.published[1].jid = 1
    /\ cycle.published[2].jid = 1

\* duty d is armed by the step: it gets a pending invocation it did not have, or
\* gets one again in the step that makes its call
Armed(d) == call'[d] /\ (~call[d] \/ (d \in due /\ d \notin due'))

C18_ArmedAtZero ==
    cycle.op = "run" /\ ~disable_new_batches =>
        call["new_batch"] /\ reactor["new_batch"] = <<0>>

\* C18 as stated: started with batch generation enabled, new_batch is armed
\* once, with delay 0; started with batch generation disabled, new_batch is
\* never armed.
C18_NeverArmedIfDisabledAtStart ==
    /\ C18_ArmedAtZero
    /\ no_batches => ~call["new_batch"]

\* C18: started with batch generation enabled, new_batch is armed once, with
\* delay 0; started with batch generation disabled, the startup step does not
\* arm new_batch, and no step arms it while batch generation is disabled.
C18_StartupArmsAtZero ==
    /\ [](C18_ArmedAtZero /\ (cycle.op = "run" /\ no_batches => ~call["new_batch"]))
    /\ [][disable_new_batches => ~Armed("new_batch")]_vars

\* C18 witness: the worker was started with batch generation disabled, it was
\* enabled since, and the watchdog has armed new_batch
C18_Witness ==
    /\ no_batches
    /\ ~disable_new_batches
    /\ cycle.op = "schedule"
    /\ call["new_batch"]

\* C19: a new_batch cycle that finds every partition at or above the ceiling
\* returns 0, does not ask the backend, publishes nothing, and leaves the stats,
\* the job id and the consumers' positions as they were.
C19_EmptyCycleNoOp ==
    [][cycle'.op = "new_batch" /\ cycle'.end = "ok"
         /\ (\A p \in Partitions : cycle'.lags[p] >= max_next_requests) =>
            /\ cycle'.returned = 0
            /\ ~cycle'.raised
            /\ cycle'.queried = << >>
            /\ cycle'.published = << >>
            /\ stats' = stats
            /\ job_id' = job_id
            /\ offsets' = offsets]_vars

\* C19 witness: after a cycle that produced a batch of two, a cycle without
\* eligible partition has left last_batch_size at two
C19_Witness ==
    /\ cycle.op = "new_batch"
    /\ cycle.end = "ok"
    /\ \A p \in Partitions : cycle.lags[p] >= max_next_requests
    /\ cycle.returned = 0
    /\ "last_batch_size" \in DOMAIN stats
    /\ stats["last_batch_size"] = 2
    /\ stats["batches_after_start"] = 1

\* C20: between disable_new_batches() and enable_new_batches() new_batch runs at
\* most once, no step arms it, and a consumer that completes normally is armed
\* again; after enable_new_batches() new_batch is armed within one watchdog
\* interval.
C20_ToggleBatches ==
    /\ [](runs_disabled <= 1)
    /\ [][disable_new_batches =>
             /\ ~Armed("new_batch")
             /\ cycle'.op = "new_batch" => call["new_batch"] /\ ~call'["new_batch"]
             /\ Completed("consume_incoming")' => call'["consumption"]
             /\ Completed("consume_scoring")' => call'["scoring_consumption"]]_vars
    /\ [][cycle'.op = "enable_new_batches" /\ ~call["new_batch"] =>
             since_fault'["new_batch"] = 0]_vars
    /\ [](since_fault["new_batch"] <= WatchdogInterval)
    /\ [][since_fault["new_batch"] >= 0 /\ since_fault'["new_batch"] < 0 =>
             call'["new_batch"] \/ disable_new_batches']_vars

\* C20 witness: batch generation was disabled while new_batch was pending, that
\* cycle has run, and a consumer has completed since and is armed again
C20_Witness ==
    /\ disable_new_batches
    /\ ~no_batches
    /\ runs_disabled = 1
    /\ cycle.op = "consume_incoming"
    /\ ~cycle.raised
    /\ call["consumption"]
    /\ ~call["new_batch"]

====
